---- MODULE Spec2Model ----
(***************************************************************************)
(* Rules engine of the four-player marble game "Dog" (server/py/dog.py):   *)
(* the game state, the action generator get_list_action and the action     *)
(* applier apply_action, with the turn-local steps_remaining of class Dog. *)
(*                                                                         *)
(* Encoding of the Python values:                                          *)
(*   - a Card is a record [suit, rank]; the suits '♠','♥','♦','♣' are      *)
(*     written "S","H","D","C"; a Joker has suit "" and rank "JKR";        *)
(*   - Python's None is NoCard for an Optional[Card], None (= -1) for an   *)
(*     Optional[int] and NoAction for an Optional[Action];                 *)
(*   - list_player is a function on 0..3; the Python lists are sequences.  *)
(***************************************************************************)
EXTENDS Integers, Sequences, FiniteSets, TLC

\* ------------------------------------------------------------------------
\* Bounds of the model
\* ------------------------------------------------------------------------

\* number of outcomes of random.shuffle that are explored
NumShuffles == 2

\* apply_action calls made on one game that a test harness has set up
MaxCalls == 2

\* apply_action calls made on one game played with generated actions only
MaxGenCalls == 6

\* apply_action calls after a set_state of the tests of the turn order
MaxTurnCalls == 2

\* the cells 0..MaxPathCell are the arguments given to is_path_blocked
MaxPathCell == 13

\* ------------------------------------------------------------------------
\* Card catalog
\* ------------------------------------------------------------------------

None == -1

NoCard == [suit |-> "", rank |-> "None"]

Card(suit, rank) == [suit |-> suit, rank |-> rank]

\* Card.__str__
CardStr(c) == c.suit \o c.rank

LIST_SUIT == <<"S", "H", "D", "C">>

LIST_RANK == <<"2", "3", "4", "5", "6", "7", "8", "9", "10", "J", "Q", "K", "A", "JKR">>

Joker == Card("", "JKR")

\* the 55 cards listed between the brackets of LIST_CARD
CardBlock ==
    [i \in 1..55 |->
        IF i <= 52
        THEN Card(LIST_SUIT[((i - 1) % 4) + 1], LIST_RANK[((i - 1) \div 4) + 1])
        ELSE Joker]

\* [...] * 2
LIST_CARD == CardBlock \o CardBlock

cnt_player == 4

\* ------------------------------------------------------------------------
\* Helpers for Python lists
\* ------------------------------------------------------------------------

RECURSIVE FlattenRange(_, _, _)
\* ss[lo] \o ... \o ss[hi]
FlattenRange(ss, lo, hi) ==
    IF lo > hi THEN <<>>
    ELSE IF lo = hi THEN ss[lo]
    ELSE LET mid == (lo + hi) \div 2 IN
         FlattenRange(ss, lo, mid) \o FlattenRange(ss, mid + 1, hi)

\* the concatenation of a list of lists
Flatten(ss) == FlattenRange(ss, 1, Len(ss))

\* x in lst
In(x, lst) == \E i \in 1..Len(lst) : lst[i] = x

\* index of the first element equal to x, 0 when there is none
IndexOf(x, lst) ==
    IF In(x, lst) THEN CHOOSE i \in 1..Len(lst) : lst[i] = x /\ \A j \in 1..(i - 1) : lst[j] # x
    ELSE 0

\* lst.remove(x) for an x that is in lst: the first occurrence goes
ListRemove(lst, x) ==
    LET i == IndexOf(x, lst) IN SubSeq(lst, 1, i - 1) \o SubSeq(lst, i + 1, Len(lst))

\* the elements of a list, as a set
Range(lst) == {lst[i] : i \in 1..Len(lst)}

\* lst[:n]
Take(lst, n) == SubSeq(lst, 1, IF n < Len(lst) THEN n ELSE Len(lst))

\* lst[n:]
Drop(lst, n) == SubSeq(lst, n + 1, Len(lst))

\* ------------------------------------------------------------------------
\* random.shuffle: the explored outcomes
\* ------------------------------------------------------------------------

\* Outcome k of random.shuffle(deck) is the permutation that reads the deck
\* with a stride coprime to its length, from an offset.
ShuffleStride(k) == <<9, 7, 13, 3>>[((k - 1) % 4) + 1]

ShuffleOffset(k) == (48 + 31 * (k - 1)) % 110

Shuffled(deck, k) ==
    [i \in 1..Len(deck) |->
        deck[((ShuffleOffset(k) + (i - 1) * ShuffleStride(k)) % Len(deck)) + 1]]

\* ------------------------------------------------------------------------
\* Dog.reset
\* ------------------------------------------------------------------------

Marble(pos, is_save) == [pos |-> pos, is_save |-> is_save]

PlayerName(i) == <<"Player 1", "Player 2", "Player 3", "Player 4">>[i + 1]

\* reset() with the kennel cells laid out four to a player (64 + i*4 + j)
ResetStateFourApart(k) ==
    LET draw_pile == Shuffled(LIST_CARD, k) IN
    [ phase |-> "running",
      cnt_round |-> 1,
      bool_card_exchanged |-> FALSE,
      idx_player_started |-> 0,
      idx_player_active |-> 0,
      list_player |->
          [i \in 0..3 |->
              [ name |-> PlayerName(i),
                list_card |-> SubSeq(draw_pile, 6 * i + 1, 6 * i + 6),
                list_marble |-> [j \in 1..4 |-> Marble(64 + i * 4 + (j - 1), FALSE)] ]],
      list_card_draw |-> Drop(draw_pile, 24),
      list_card_discard |-> <<>>,
      card_active |-> NoCard ]

\* the GameState built by reset() when random.shuffle has outcome k
ResetState(k) ==
    LET draw_pile == Shuffled(LIST_CARD, k) IN
    [ phase |-> "running",
      cnt_round |-> 1,
      bool_card_exchanged |-> FALSE,
      idx_player_started |-> 0,
      idx_player_active |-> 0,
      list_player |->
          [i \in 0..3 |->
              [ name |-> PlayerName(i),
                list_card |-> SubSeq(draw_pile, 6 * i + 1, 6 * i + 6),
                list_marble |-> [j \in 1..4 |-> Marble(64 + i * 8 + (j - 1), FALSE)] ]],
      list_card_draw |-> Drop(draw_pile, 24),
      list_card_discard |-> <<>>,
      card_active |-> NoCard ]

\* ------------------------------------------------------------------------
\* Actions
\* ------------------------------------------------------------------------

Action(card, pos_from, pos_to, card_swap) ==
    [card |-> card, pos_from |-> pos_from, pos_to |-> pos_to, card_swap |-> card_swap]

\* apply_action(None)
NoAction == Action(NoCard, None, None, NoCard)

\* ------------------------------------------------------------------------
\* Dog.is_path_blocked
\* ------------------------------------------------------------------------

\* range(start + step, end, step): the cells before end only
PathCellsBeforeEnd(start, end) == IF end > start THEN (start + 1)..(end - 1) ELSE (end + 1)..(start - 1)

\* range(start + step, end + step, step) with step = 1 if end > start else -1
PathCells(start, end) == IF end > start THEN (start + 1)..end ELSE end..(start - 1)

\* a check that takes every marble on the path for a blocking one
is_path_blockedAnyMarble(s, start, end) ==
    \E pos \in PathCells(start, end) :
        \E i \in 0..3 :
            \E j \in 1..Len(s.list_player[i].list_marble) :
                s.list_player[i].list_marble[j].pos = pos

is_path_blocked(s, start, end) ==
    \E pos \in PathCells(start, end) :
        \E i \in 0..3 :
            \E j \in 1..Len(s.list_player[i].list_marble) :
                /\ s.list_player[i].list_marble[j].pos = pos
                /\ s.list_player[i].list_marble[j].is_save

\* ------------------------------------------------------------------------
\* Dog.get_list_action
\* ------------------------------------------------------------------------

\* all(marble.pos >= 68 for marble in active_player.list_marble)
player_finished(s) ==
    LET marbles == s.list_player[s.idx_player_active].list_marble IN
    \A j \in 1..Len(marbles) : marbles[j].pos >= 68

\* all(marble.pos >= 64 for marble in active_player.list_marble)
is_beginning_phase(s) ==
    LET marbles == s.list_player[s.idx_player_active].list_marble IN
    \A j \in 1..Len(marbles) : marbles[j].pos >= 64

\* str.isdigit() on a rank
IsDigit(rank) == rank \in {"2", "3", "4", "5", "6", "7", "8", "9", "10"}

\* int(rank) for a rank of digits
IntOfRank(rank) ==
    CASE rank = "2" -> 2 [] rank = "3" -> 3 [] rank = "4" -> 4 [] rank = "5" -> 5
      [] rank = "6" -> 6 [] rank = "7" -> 7 [] rank = "8" -> 8 [] rank = "9" -> 9
      [] rank = "10" -> 10

\* the keys of forward_move_cards
ForwardMoveRanks == {"2", "3", "5", "6", "8", "9", "10"}

\* the branch "if player_finished" without its tests that the partner's marble
\* and its target are on the track
SupportActionsOffTrack(s) ==
    LET ap == s.idx_player_active
        hand == s.list_player[ap].list_card
        pm == s.list_player[(ap + 2) % cnt_player].list_marble
        ForCard(card) ==
            IF IsDigit(card.rank)
            THEN Flatten([j \in 1..Len(pm) |->
                     LET pos == pm[j].pos
                         target_pos == pos + IntOfRank(card.rank)
                     IN IF ~is_path_blocked(s, pos, target_pos)
                        THEN <<Action(card, pos, target_pos, NoCard)>>
                        ELSE <<>>])
            ELSE IF card.rank \in {"A", "K"}
            THEN Flatten([j \in 1..Len(pm) |->
                     IF pm[j].pos = 64 THEN <<Action(card, 64, 0, NoCard)>> ELSE <<>>])
            ELSE <<>>
    IN Flatten([c \in 1..Len(hand) |-> ForCard(hand[c])])

\* the branch "if player_finished": actions on the partner's marbles
SupportActions(s) ==
    LET ap == s.idx_player_active
        hand == s.list_player[ap].list_card
        pm == s.list_player[(ap + 2) % cnt_player].list_marble
        ForCard(card) ==
            IF IsDigit(card.rank)
            THEN Flatten([j \in 1..Len(pm) |->
                     LET pos == pm[j].pos
                         target_pos == pos + IntOfRank(card.rank)
                     IN IF /\ 0 <= pos /\ pos < 64
                           /\ target_pos <= 63
                           /\ ~is_path_blocked(s, pos, target_pos)
                        THEN <<Action(card, pos, target_pos, NoCard)>>
                        ELSE <<>>])
            ELSE IF card.rank \in {"A", "K"}
            THEN Flatten([j \in 1..Len(pm) |->
                     IF pm[j].pos = 64 THEN <<Action(card, 64, 0, NoCard)>> ELSE <<>>])
            ELSE <<>>
    IN Flatten([c \in 1..Len(hand) |-> ForCard(hand[c])])

\* the kennel exits offered for a card: one per own marble on cell 64
KennelExitActions(s, card) ==
    LET om == s.list_player[s.idx_player_active].list_marble IN
    Flatten([j \in 1..Len(om) |->
        IF om[j].pos = 64 THEN <<Action(card, 64, 0, NoCard)>> ELSE <<>>])

\* the branch "if card.rank == 'JKR'"
JokerActions(s, card) ==
    LET ranks == IF is_beginning_phase(s)
                 THEN <<"A", "K">>
                 ELSE SubSeq(LIST_RANK, 1, 13)
    IN KennelExitActions(s, card) \o
       Flatten([u \in 1..4 |->
           [r \in 1..Len(ranks) |->
               Action(card, None, None, Card(LIST_SUIT[u], ranks[r]))]])

\* the cells of the marbles of the list tm that are on the track and not safe
OnBoardUnsafe(tm) ==
    Flatten([j \in 1..Len(tm) |->
        IF ~tm[j].is_save /\ tm[j].pos < 64 THEN <<tm[j].pos>> ELSE <<>>])

\* the cells of the marbles of the players other than ap that are on the track
\* and not safe, in the order the loops visit them
JakeTargets(s, ap) ==
    Flatten([i \in 1..4 |->
        IF i - 1 = ap THEN <<>> ELSE OnBoardUnsafe(s.list_player[i - 1].list_marble)])

\* the cells of the marbles of the list om that are on the track
OnBoard(om) == Flatten([j \in 1..Len(om) |-> IF om[j].pos < 64 THEN <<om[j].pos>> ELSE <<>>])

\* "Forward swap" and "Reverse swap" for every pair of an own cell and a target
JakeSwaps(card, own, targets) ==
    Flatten([j \in 1..Len(own) |->
        Flatten([t \in 1..Len(targets) |->
            << Action(card, own[j], targets[t], NoCard),
               Action(card, targets[t], own[j], NoCard) >>])])

\* "generate self-swapping actions"
JakeSelfSwaps(card, marbles_on_board) ==
    Flatten([i \in 1..Len(marbles_on_board) |->
        Flatten([j \in 1..Len(marbles_on_board) |->
            IF j > i
            THEN << Action(card, marbles_on_board[i], marbles_on_board[j], NoCard),
                    Action(card, marbles_on_board[j], marbles_on_board[i], NoCard) >>
            ELSE <<>>])])

\* found_valid_target decides between the two lists
JakeChoice(swaps, own) == IF swaps # <<>> THEN swaps ELSE own

\* the branch "if card.rank == 'J'"
JakeActions(s, card) ==
    JakeChoice(
        JakeSwaps(card, OnBoard(s.list_player[s.idx_player_active].list_marble),
                  JakeTargets(s, s.idx_player_active)),
        JakeSelfSwaps(card, OnBoard(s.list_player[s.idx_player_active].list_marble)))

\* the branch "if card.rank in forward_move_cards"
ForwardActions(s, card) ==
    LET om == s.list_player[s.idx_player_active].list_marble IN
    IF card.rank \in ForwardMoveRanks
    THEN Flatten([j \in 1..Len(om) |->
             LET pos == om[j].pos
                 target_pos == pos + IntOfRank(card.rank)
             IN IF /\ 0 <= pos /\ pos < 64
                   /\ target_pos <= 63
                   /\ ~is_path_blocked(s, pos, target_pos)
                THEN <<Action(card, pos, target_pos, NoCard)>>
                ELSE <<>>])
    ELSE <<>>

\* one pass of the loop "for card in cards"
CardActions(s, card) ==
    IF card.rank = "JKR" THEN JokerActions(s, card)
    ELSE (IF card.rank \in {"A", "K"} THEN KennelExitActions(s, card) ELSE <<>>) \o
         (IF card.rank = "J" THEN JakeActions(s, card) ELSE ForwardActions(s, card))

\* action_key of the duplicate filter
ActionKey(a) ==
    << a.card.suit, a.card.rank, a.pos_from, a.pos_to,
       IF a.card_swap # NoCard THEN CardStr(a.card_swap) ELSE "None" >>

\* unique_actions: the actions whose key no earlier action has, in order
UniqueActions(actions) ==
    Flatten([i \in 1..Len(actions) |->
        IF \E j \in 1..(i - 1) : ActionKey(actions[j]) = ActionKey(actions[i])
        THEN <<>>
        ELSE <<actions[i]>>])

\* "If card_active is set, ensure only actions related to it are available"
FilterActive(s, actions) ==
    IF s.card_active # NoCard
    THEN Flatten([i \in 1..Len(actions) |->
             IF actions[i].card = s.card_active THEN <<actions[i]>> ELSE <<>>])
    ELSE actions

\* the loop "for card in cards" of a player who has not finished; hand is the
\* active player's list_card
CardsActions(s, hand, cards) ==
    IF cards # <<>> /\ s.cnt_round = 0 /\ ~s.bool_card_exchanged
    THEN [c \in 1..Len(hand) |-> Action(hand[c], None, None, NoCard)]
    ELSE UniqueActions(FilterActive(s, Flatten([c \in 1..Len(cards) |-> CardActions(s, cards[c])])))

get_list_action(s) ==
    IF player_finished(s) THEN SupportActions(s)
    ELSE CardsActions(s, s.list_player[s.idx_player_active].list_card,
                      IF s.card_active # NoCard
                      THEN <<s.card_active>>
                      ELSE s.list_player[s.idx_player_active].list_card)

\* ------------------------------------------------------------------------
\* Dog.apply_action
\* ------------------------------------------------------------------------

\* What one call leaves behind: the GameState, the turn-local steps_remaining,
\* the exception it raised ("none", "exceeded" for the ValueError of the SEVEN
\* branch, "remove" for the ValueError of list.remove(x) with x not in the
\* list) and the branch of the dispatch that handled the call.
Outcome(s, steps, error, branch) ==
    [state |-> s, steps_remaining |-> steps, error |-> error, branch |-> branch]

\* next((k for k, marble in enumerate(marbles) if marble.pos == pos), None),
\* as an index of 1..4, or 0 for None
MarbleAt(marbles, pos) ==
    IF \E j \in 1..Len(marbles) : marbles[j].pos = pos
    THEN CHOOSE j \in 1..Len(marbles) :
            marbles[j].pos = pos /\ \A h \in 1..(j - 1) : marbles[h].pos # pos
    ELSE 0

\* the GameState with marble j of player i put on pos (j = 0: no marble)
MoveMarble(s, i, j, pos) ==
    IF j = 0 THEN s ELSE [s EXCEPT !.list_player[i].list_marble[j].pos = pos]

\* the GameState with marble j of player i given the flag is_save
FlagMarble(s, i, j, is_save) ==
    IF j = 0 THEN s ELSE [s EXCEPT !.list_player[i].list_marble[j].is_save = is_save]

\* "pos = 72; is_save = False": the marble is sent to the kennel
SendToKennel(s, i, j) == FlagMarble(MoveMarble(s, i, j, 72), i, j, FALSE)

\* idx_player_active = (idx_player_active + 1) % cnt_player
AdvancePlayer(s) == [s EXCEPT !.idx_player_active = (@ + 1) % cnt_player]

\* a deal that stays at the floor of 2 cards after round 5
cards_per_playerFloor(r) == IF 1 <= r /\ r <= 5 THEN 7 - r ELSE 2

\* the number of cards to deal in round cnt_round
cards_per_player(r) ==
    IF 1 <= r /\ r <= 5 THEN 7 - r
    ELSE IF r = 6 THEN 6
    ELSE LET n == 7 - (((r - 1) % 5) + 1) IN IF n > 2 THEN n ELSE 2

\* the block "if idx_player_active == idx_player_started": the round is
\* complete; k is the outcome of random.shuffle should the deck be renewed
RoundRollover(s, k) ==
    LET r == s.cnt_round + 1
        n == cards_per_player(r)
        reshuffle == Len(s.list_card_draw) < n * cnt_player
        pile == IF reshuffle THEN Shuffled(LIST_CARD, k) ELSE s.list_card_draw
    IN [s EXCEPT
          !.cnt_round = r,
          !.bool_card_exchanged = FALSE,
          !.idx_player_started = (@ + 1) % cnt_player,
          !.list_player =
              [i \in 0..3 |-> [s.list_player[i] EXCEPT !.list_card = Take(Drop(pile, n * i), n)]],
          !.list_card_draw = Drop(pile, n * cnt_player),
          !.list_card_discard = IF reshuffle THEN <<>> ELSE @]

\* "Add folding logic here": a pass with no action to offer discards the hand
Fold(s, action) ==
    IF /\ action = NoAction
       /\ get_list_action(s) = <<>>
       /\ s.card_active = NoCard
       /\ s.list_player[s.idx_player_active].list_card # <<>>
    THEN [s EXCEPT !.list_card_discard = @ \o s.list_player[s.idx_player_active].list_card,
                   !.list_player[s.idx_player_active].list_card = <<>>]
    ELSE s

\* "Proceed to the next player's turn if no steps are remaining"
AdvanceIfNoSteps(s, steps) == IF steps = None THEN AdvancePlayer(s) ELSE s

\* "Check if the round is complete"
RolloverIfComplete(s, k) ==
    IF s.idx_player_active = s.idx_player_started THEN RoundRollover(s, k) ELSE s

\* the tail of apply_action: folding, turn advance and round rollover
TurnEnd(s, steps, action, k) ==
    RolloverIfComplete(AdvanceIfNoSteps(Fold(s, action), steps), k)

\* player.list_card.remove(card) for the active player, card being in the hand
RemoveFromHand(s, card) ==
    [s EXCEPT !.list_player[s.idx_player_active].list_card = ListRemove(@, card)]

\* card in active_player.list_card
InHand(s, card) == In(card, s.list_player[s.idx_player_active].list_card)

\* "Find marble at current position (15) and move it back to start position (12)"
MoveBackFrom15(s) ==
    MoveMarble(s, s.idx_player_active, MarbleAt(s.list_player[s.idx_player_active].list_marble, 15), 12)

\* "Restore Player 2's marble from kennel back to pos 15"
RestoreFromKennel(s) ==
    FlagMarble(MoveMarble(s, 1, MarbleAt(s.list_player[1].list_marble, 72), 15),
               1, MarbleAt(s.list_player[1].list_marble, 72), FALSE)

\* the end of the first branch, the marbles being moved
PassSevenEnd(s, steps) ==
    IF ~InHand(s, s.card_active)
    THEN Outcome(s, steps, "remove", "pass_seven")
    ELSE Outcome(AdvancePlayer([RemoveFromHand(s, s.card_active) EXCEPT !.card_active = NoCard]),
                 None, "none", "pass_seven")

\* the first branch: a pass while the active card is a SEVEN
ApplyPassSeven(s, steps) == PassSevenEnd(RestoreFromKennel(MoveBackFrom15(s)), steps)

\* a transfer that copies the card to the partner and leaves the hand alone
TransferCardKeeping(s, card) ==
    IF InHand(s, card)
    THEN [s EXCEPT
            !.list_player[(s.idx_player_active + 2) % cnt_player].list_card = Append(@, card),
            !.bool_card_exchanged = TRUE]
    ELSE s

\* "Transfer the card from active player to partner"
TransferCard(s, card) ==
    IF InHand(s, card)
    THEN [RemoveFromHand(s, card) EXCEPT
            !.list_player[(s.idx_player_active + 2) % cnt_player].list_card = Append(@, card),
            !.bool_card_exchanged = TRUE]
    ELSE s

\* "Handle exchange actions": the card goes to the partner
ApplyExchange(s, steps, action) ==
    Outcome(AdvancePlayer(TransferCard(s, action.card)), steps, "none", "exchange")

\* "Remove the JOKER card from the player's hand"
RemoveIfInHand(s, card) == IF InHand(s, card) THEN RemoveFromHand(s, card) ELSE s

\* "Handle JOKER swap actions" followed by the turn advance of the other branches
ApplyJokerSwapAdvancing(s, steps, action) ==
    Outcome(AdvancePlayer([RemoveIfInHand(s, action.card) EXCEPT !.card_active = action.card_swap]),
            steps, "none", "joker")

\* "Handle JOKER swap actions": card_swap becomes the active card
ApplyJokerSwap(s, steps, action) ==
    Outcome([RemoveIfInHand(s, action.card) EXCEPT !.card_active = action.card_swap],
            steps, "none", "joker")

\* the partner's marble on pos_from, as an index of the partner's list_marble
PartnerMarble(s, action) ==
    MarbleAt(s.list_player[(s.idx_player_active + 2) % cnt_player].list_marble, action.pos_from)

\* the end of the team-support branch, the partner's marble being moved
SupportEnd(s, steps, action) ==
    IF ~InHand(s, action.card)
    THEN Outcome(s, steps, "remove", "support")
    ELSE Outcome(RemoveFromHand(s, action.card), steps, "none", "support")

\* "Handle supporting partner's marble", when the partner has a marble on pos_from
ApplySupport(s, steps, action) ==
    SupportEnd(MoveMarble(s, (s.idx_player_active + 2) % cnt_player, PartnerMarble(s, action),
                          action.pos_to),
               steps, action)

\* steps_used of the SEVEN branch
StepsUsed(action) ==
    IF action.pos_to >= 76
    THEN (IF action.pos_from = 13 THEN 5 ELSE 2)
    ELSE IF action.pos_to >= action.pos_from
         THEN action.pos_to - action.pos_from
         ELSE action.pos_from - action.pos_to

\* the first player other than ap, in list order, with a marble on pos; None if none
FirstOpponentAt(s, ap, pos) ==
    IF \E i \in 0..3 : i # ap /\ MarbleAt(s.list_player[i].list_marble, pos) # 0
    THEN CHOOSE i \in 0..3 :
            /\ i # ap /\ MarbleAt(s.list_player[i].list_marble, pos) # 0
            /\ \A h \in 0..(i - 1) : h = ap \/ MarbleAt(s.list_player[h].list_marble, pos) = 0
    ELSE None

\* the last player other than ap, in list order, with a marble on pos; None if none
LastOpponentAt(s, ap, pos) ==
    IF \E i \in 0..3 : i # ap /\ MarbleAt(s.list_player[i].list_marble, pos) # 0
    THEN CHOOSE i \in 0..3 :
            /\ i # ap /\ MarbleAt(s.list_player[i].list_marble, pos) # 0
            /\ \A h \in (i + 1)..3 : h = ap \/ MarbleAt(s.list_player[h].list_marble, pos) = 0
    ELSE None

\* the first marble of player i on pos goes to the kennel (i = None: no player)
KickMarbleOf(s, i, pos) ==
    IF i = None THEN s ELSE SendToKennel(s, i, MarbleAt(s.list_player[i].list_marble, pos))

\* one pass of "for intermediate_pos in range(pos_from + 1, pos_to + 1)": an
\* opponent's marble on the cell goes to the kennel; without one, an own
\* marble on the cell goes to the kennel and the loop ends (stop)
KickCell(s, ap, pos) ==
    IF FirstOpponentAt(s, ap, pos) # None
    THEN [state |-> KickMarbleOf(s, FirstOpponentAt(s, ap, pos), pos), stop |-> FALSE]
    ELSE IF MarbleAt(s.list_player[ap].list_marble, pos) # 0
    THEN [state |-> KickMarbleOf(s, ap, pos), stop |-> TRUE]
    ELSE [state |-> s, stop |-> FALSE]

RECURSIVE KickRange(_, _, _, _)

\* the passes for the cells after mid, unless the loop has ended
KickRest(first, ap, mid, hi) ==
    IF first.stop THEN first ELSE KickRange(first.state, ap, mid + 1, hi)

\* the passes of the loop for the cells lo..hi, in order, up to a break
KickRange(s, ap, lo, hi) ==
    IF lo > hi THEN [state |-> s, stop |-> FALSE]
    ELSE IF lo = hi THEN KickCell(s, ap, lo)
    ELSE KickRest(KickRange(s, ap, lo, (lo + hi) \div 2), ap, (lo + hi) \div 2, hi)

\* the whole loop over the cells pos..pos_to
KickPath(s, ap, pos, pos_to) == KickRange(s, ap, pos, pos_to).state

\* "Finalize the turn if all steps are used", the marble being moved
SevenEnd(s, steps, card_to_use) ==
    IF steps # 0 THEN Outcome(s, steps, "none", "seven")
    ELSE IF ~InHand(s, card_to_use)
    THEN Outcome([s EXCEPT !.card_active = NoCard], None, "remove", "seven")
    ELSE Outcome(AdvancePlayer([RemoveFromHand(s, card_to_use) EXCEPT !.card_active = NoCard]),
                 None, "none", "seven")

\* the SEVEN branch once steps_remaining and card_active are initialized:
\* moving_marble is the index of the marble on pos_from (0: none)
SevenMove(s, steps, action, card_to_use, moving_marble) ==
    IF StepsUsed(action) > steps THEN Outcome(s, steps, "exceeded", "seven")
    ELSE IF moving_marble = 0 THEN Outcome(s, steps, "none", "seven")
    ELSE SevenEnd(MoveMarble(KickPath(s, s.idx_player_active, action.pos_from + 1, action.pos_to),
                             s.idx_player_active, moving_marble, action.pos_to),
                  steps - StepsUsed(action), card_to_use)

\* "Initialize for SEVEN card"
SevenInit(s, steps, card_to_use) ==
    IF steps = None THEN [s EXCEPT !.card_active = card_to_use] ELSE s

\* "SEVEN card: Handle split movements"
ApplySeven(s, steps, action, card_to_use) ==
    SevenMove(SevenInit(s, steps, card_to_use), IF steps = None THEN 7 ELSE steps, action,
              card_to_use, MarbleAt(s.list_player[s.idx_player_active].list_marble, action.pos_from))

\* moving_marble.pos, opponent_marble.pos = opponent_marble.pos, moving_marble.pos
SwapMarbles(s, action, moving_marble, opp) ==
    IF moving_marble # 0 /\ opp # None
    THEN MoveMarble(MoveMarble(s, s.idx_player_active, moving_marble, action.pos_to),
                    opp, MarbleAt(s.list_player[opp].list_marble, action.pos_to), action.pos_from)
    ELSE s

\* "Jake (Jack) card: Handle swapping": the marble moves of the branch
JakeMove(s, action) ==
    SwapMarbles(s, action,
                MarbleAt(s.list_player[s.idx_player_active].list_marble, action.pos_from),
                FirstOpponentAt(s, s.idx_player_active, action.pos_to))

\* "Check if team 1 (players 1 & 3) has all marbles in their finish areas"
team_won(s) ==
    \A idx_player \in {0, 2} :
        \A j \in 1..Len(s.list_player[idx_player].list_marble) :
            /\ 68 + (idx_player * 8) <= s.list_player[idx_player].list_marble[j].pos
            /\ s.list_player[idx_player].list_marble[j].pos <= 68 + (idx_player * 8) + 3

\* "if team_won: self.state.phase = GamePhase.FINISHED"
CheckVictory(s) == IF team_won(s) THEN [s EXCEPT !.phase = "finished"] ELSE s

\* "Move the active player's marble": pos = pos_to, is_save = True
PlaceMarble(s, moving_marble, pos_to) ==
    FlagMarble(MoveMarble(s, s.idx_player_active, moving_marble, pos_to),
               s.idx_player_active, moving_marble, TRUE)

\* "Handle all other card types": the marble moves and the victory check
GenericMove(s, action) ==
    IF MarbleAt(s.list_player[s.idx_player_active].list_marble, action.pos_from) = 0 THEN s
    ELSE CheckVictory(
            PlaceMarble(
                KickMarbleOf(s, LastOpponentAt(s, s.idx_player_active, action.pos_to), action.pos_to),
                MarbleAt(s.list_player[s.idx_player_active].list_marble, action.pos_from),
                action.pos_to))

\* "Remove the card used ..." and "Clear the active card if it was used"
UseCard(s, action) ==
    [(IF s.card_active = NoCard THEN RemoveIfInHand(s, action.card) ELSE s)
        EXCEPT !.card_active = NoCard]

\* the branches for an action with positions, card_to_use being
\* "card_active if card_active else action.card"
ApplyMove(s, steps, action, k, card_to_use) ==
    IF player_finished(s) /\ PartnerMarble(s, action) # 0
    THEN ApplySupport(s, steps, action)
    ELSE IF action.card.rank = "JKR" /\ action.card_swap # NoCard
    THEN ApplyJokerSwap(s, steps, action)
    ELSE IF card_to_use.rank = "7"
    THEN ApplySeven(s, steps, action, card_to_use)
    ELSE IF card_to_use.rank = "J"
    THEN Outcome(TurnEnd(UseCard(JakeMove(s, action), action), steps, action, k),
                 steps, "none", "jake")
    ELSE Outcome(TurnEnd(UseCard(GenericMove(s, action), action), steps, action, k),
                 steps, "none", "generic")

\* apply_action(action) on GameState s with turn-local steps; k is the outcome
\* of random.shuffle, should the call renew the deck
apply_action(s, steps, action, k) ==
    IF action = NoAction /\ s.card_active # NoCard /\ s.card_active.rank = "7"
    THEN ApplyPassSeven(s, steps)
    ELSE IF action = NoAction
    THEN Outcome(TurnEnd(s, steps, action, k), steps, "none", "pass")
    ELSE IF action.pos_from = None /\ action.pos_to = None /\ action.card_swap = NoCard
    THEN ApplyExchange(s, steps, action)
    ELSE IF action.pos_from = None /\ action.pos_to = None /\ action.card_swap # NoCard
    THEN ApplyJokerSwap(s, steps, action)
    ELSE ApplyMove(s, steps, action, k, IF s.card_active # NoCard THEN s.card_active ELSE action.card)

\* ------------------------------------------------------------------------
\* Dog.get_player_view
\* ------------------------------------------------------------------------

\* get_player_view(idx_player) on GameState s: "return self.state"
get_player_view(s, idx_player) == s

\* ------------------------------------------------------------------------
\* Game states a test harness installs with set_state (test/test_dog.py)
\* ------------------------------------------------------------------------

SevenSpade == Card("S", "7")

AceSpade == Card("S", "A")

JackSpade == Card("S", "J")

\* state.list_player[i].list_marble[0].pos = pos (is_save = False)
WithMarble(s, i, pos) == [s EXCEPT !.list_player[i].list_marble[1] = Marble(pos, FALSE)]

\* the marbles of player i on the cells of the list cells, none of them safe
WithMarbles(s, i, cells) ==
    [s EXCEPT !.list_player[i].list_marble = [j \in 1..Len(cells) |-> Marble(cells[j], FALSE)]]

\* state.list_player[i].list_card = cards
WithHand(s, i, cards) == [s EXCEPT !.list_player[i].list_card = cards]

\* test_apply_action_seven_card_final_move, test_seven_card_special_positions,
\* test_seven_card_partial_steps, test_seven_card_steps_exceeding_limit: the
\* active player holds the SEVEN alone, the first marble stands on cell pos
SevenState(pos, card_active) ==
    [WithMarble(WithHand(ResetState(1), 0, <<SevenSpade>>), 0, pos)
        EXCEPT !.bool_card_exchanged = TRUE, !.card_active = card_active]

\* test_apply_action_kick_opponent with a SEVEN: a marble of Player 2 on cell 15
SevenKickState == WithMarble(SevenState(10, SevenSpade), 1, 15)

\* test_endgame_detection: both players of team 0/2 in their finish cells
EndgameState ==
    [WithMarbles(WithMarbles(ResetState(1), 0, <<68, 68, 68, 68>>), 2, <<84, 84, 84, 84>>)
        EXCEPT !.phase = "finished"]

\* test_endgame_detection one move earlier: player ap (0 or 1) is to move and
\* holds an ace, its first marble stands on cell 10 and all other marbles of
\* its team are in their finish cells; the first marble of the next player
\* stands on cell 20
LastMoveState(ap) ==
    LET s1 == WithMarbles(ResetState(1), 0, IF ap = 0 THEN <<10, 69, 70, 71>> ELSE <<64, 65, 66, 67>>)
        s2 == WithMarbles(s1, 2, IF ap = 0 THEN <<84, 85, 86, 87>> ELSE <<20, 81, 82, 83>>)
        s3 == WithMarbles(s2, 1, IF ap = 1 THEN <<10, 77, 78, 79>> ELSE <<20, 73, 74, 75>>)
        s4 == WithMarbles(s3, 3, IF ap = 1 THEN <<92, 93, 94, 95>> ELSE <<88, 89, 90, 91>>)
    IN [WithHand(s4, ap, <<AceSpade>>) EXCEPT !.idx_player_active = ap]

\* a SEVEN declared through a Joker and played up to its last two steps: the
\* Joker has left the hand (apply_action with card_swap = 7), card_active is
\* the declared SEVEN and the marble has gone from 13 into the finish
JokerSevenState == WithHand(SevenState(76, SevenSpade), 0, <<>>)

\* test_apply_action_joker_swap_beginning_phase, with a second Joker in the
\* hand: the active player holds Jokers only, all marbles in the kennel
JokerState == [WithHand(ResetState(1), 0, <<Joker, Joker>>) EXCEPT !.bool_card_exchanged = TRUE]

\* test_apply_action_exchange_card with the hands of reset(): round 0 with the
\* exchange pending, and the first marble of every player on the track
ExchangeState ==
    [WithMarble(WithMarble(WithMarble(WithMarble(ResetState(1), 0, 1), 1, 17), 2, 33), 3, 49)
        EXCEPT !.cnt_round = 0]

\* test_generate_actions_normal_move with the obstacle of
\* test_is_path_blocked_with_block: the active player holds a 2 and a 5 and
\* has marbles on the cells 10 and 60, a safe marble of Player 2 stands on 12
ForwardState ==
    [WithHand(WithMarbles(ResetState(1), 0, <<10, 60, 66, 67>>), 0, <<Card("S", "2"), Card("S", "5")>>)
        EXCEPT !.list_player[1].list_marble[1] = Marble(12, TRUE)]

\* test_round_progression in round r with a draw pile of n cards: the player
\* before the starting player is to move with an empty hand, every marble
\* stands on cell 0
RoundState(r, n) ==
    [WithHand(WithMarbles(WithMarbles(WithMarbles(WithMarbles(ResetState(1),
                  0, <<0, 0, 0, 0>>), 1, <<0, 0, 0, 0>>), 2, <<0, 0, 0, 0>>), 3, <<0, 0, 0, 0>>),
              3, <<>>)
        EXCEPT !.idx_player_active = 3, !.cnt_round = r, !.list_card_draw = Take(@, n)]

\* the rounds of RoundState: the first, those around the return to six cards,
\* and one of the second cycle; the pile of round 6 is what five deals of a
\* game leave of it
RoundStates == { RoundState(1, 86), RoundState(5, 30), RoundState(6, 6), RoundState(10, 86) }

\* test_apply_action_kick_opponent with the marble on cell 12 owned by player
\* j: the active player holds a 2 alone and has a marble on cell 10
KickState(j) ==
    [WithMarble(WithMarble(WithHand(ResetState(1), 0, <<Card("S", "2")>>), 0, 10), j, 12)
        EXCEPT !.bool_card_exchanged = TRUE]

\* the owners of the marble on cell 12: Player 2 as in the test, and Player 4
KickStates == { KickState(1), KickState(3) }

\* test_apply_action_partner_marble_when_finished: the four marbles of the
\* active player stand on cell 68, the hand is a 5 alone, and the first marble
\* of the partner stands on cell 10 with the given is_save
SupportState(is_save) ==
    [WithHand(WithMarbles(ResetState(1), 0, <<68, 68, 68, 68>>), 0, <<Card("S", "5")>>)
        EXCEPT !.list_player[2].list_marble[1] = Marble(10, is_save),
               !.bool_card_exchanged = TRUE]

\* the partner's marble as the test sets it, and as a generic move leaves one
SupportStates == { SupportState(FALSE), SupportState(TRUE) }

\* ExchangeState with the last player of the round to move
LastExchangeState == [ExchangeState EXCEPT !.idx_player_active = 3]

\* test_apply_action_move_marble with a second marble of the active player on
\* the target cell: the hand is a 2 alone, own marbles stand on 10 and 12
MoveState ==
    [WithHand(WithMarbles(ResetState(1), 0, <<10, 12, 66, 67>>), 0, <<Card("S", "2")>>)
        EXCEPT !.bool_card_exchanged = TRUE]

\* SupportState with both copies of the 5 of spades of the deck in the hand
PairSupportState == WithHand(SupportState(FALSE), 0, <<Card("S", "5"), Card("S", "5")>>)

\* LastExchangeState with both copies of the 5 of spades in the hand of the
\* player to move
PairExchangeState == WithHand(LastExchangeState, 3, <<Card("S", "5"), Card("S", "5")>>)

\* the states of the tests of the turn order and of the moves of one card
TurnStates ==
    RoundStates \cup KickStates \cup SupportStates
    \cup {LastExchangeState, MoveState, PairSupportState, PairExchangeState}

HarnessStates ==
    { SevenState(76, NoCard), SevenState(76, SevenSpade), SevenState(12, SevenSpade),
      SevenState(13, SevenSpade), SevenState(10, SevenSpade), SevenKickState,
      JokerSevenState, JokerState, ExchangeState, ForwardState, EndgameState, LastMoveState(0), LastMoveState(1) }

\* the values a test assigns to game.steps_remaining
HarnessSteps == {0, 1, 2, 7}

\* a move from a cell that holds no marble
EmptyMove == Action(AceSpade, 30, 31, NoCard)

\* the actions of a caller's own making: moves of the tests, Joker
\* declarations, an exchange declaration, a move from an empty cell
AllProbes ==
    { Action(SevenSpade, 13, 76, NoCard), Action(SevenSpade, 76, 78, NoCard),
      Action(SevenSpade, 76, 80, NoCard), Action(SevenSpade, 10, 15, NoCard),
      Action(SevenSpade, 10, 20, NoCard), Action(SevenSpade, 12, 76, NoCard),
      Action(AceSpade, 64, 0, NoCard), Action(AceSpade, 10, 68, NoCard),
      Action(AceSpade, 10, 76, NoCard), EmptyMove,
      Action(Joker, None, None, SevenSpade), Action(Joker, None, None, AceSpade),
      Action(AceSpade, None, None, NoCard), Action(JackSpade, 10, 15, NoCard) }


\* player i has a marble on cell pos
HasMarbleAt(s, i, pos) == MarbleAt(s.list_player[i].list_marble, pos) # 0

\* the actions a caller passes to apply_action on GameState s besides those of
\* get_list_action: the probes that name no cell, the empty move, or a cell
\* with a marble of the active player or of the partner
ProbeActions(s) ==
    { a \in AllProbes :
        \/ a.pos_from = None
        \/ a = EmptyMove
        \/ HasMarbleAt(s, s.idx_player_active, a.pos_from)
        \/ HasMarbleAt(s, (s.idx_player_active + 2) % cnt_player, a.pos_from) }

\* ------------------------------------------------------------------------
\* The game object and its callers
\* ------------------------------------------------------------------------

VARIABLES
    state,            \* Dog.state
    steps_remaining,  \* Dog.steps_remaining
    last,             \* the last call made on the game object
    calls             \* apply_action calls since the game was set up

vars == <<state, steps_remaining, last, calls>>

\* the players who were the active player of an apply_action call since the
\* game was set up or, if later, since cnt_round was last incremented
ActedSoFar == IF state.cnt_round # last.state_before.cnt_round THEN {} ELSE last.acted

\* the record of a call: the operation, its argument, what it raised, the
\* branch of apply_action that handled it, the game before the call, and the
\* players who have acted in the round, the caller of this call included
Call(op, action, generated, error, branch) ==
    [ op |-> op, action |-> action, generated |-> generated, error |-> error,
      branch |-> branch, state_before |-> state, steps_before |-> steps_remaining,
      acted |-> ActedSoFar \cup {state.idx_player_active} ]

\* the record of a call that sets the game up: no game before it is recorded
Setup(op) ==
    [ op |-> op, action |-> NoAction, generated |-> FALSE, error |-> "none",
      branch |-> "none", state_before |-> state', steps_before |-> steps_remaining',
      acted |-> {} ]

\* Dog(): steps_remaining = None, then reset()
Init ==
    \E k \in 1..NumShuffles :
        /\ state = ResetState(k)
        /\ steps_remaining = None
        /\ last = [ op |-> "reset", action |-> NoAction, generated |-> FALSE, error |-> "none",
                    branch |-> "none", state_before |-> ResetState(k), steps_before |-> None,
                    acted |-> {} ]
        /\ calls = 0

\* game.reset()
Reset ==
    /\ calls > 0
    /\ \E k \in 1..NumShuffles : state' = ResetState(k)
    /\ UNCHANGED steps_remaining
    /\ last' = Setup("reset")
    /\ calls' = 0

\* game.set_state(st)
SetState ==
    /\ \E st \in HarnessStates : state' = st
    /\ UNCHANGED steps_remaining
    /\ last' = Setup("set_state")
    /\ calls' = 0

\* game.steps_remaining = n, as the tests of the SEVEN assign it while they
\* set a game up
SetStepsRemaining ==
    /\ calls = 0
    /\ \/ In(SevenSpade, state.list_player[state.idx_player_active].list_card)
       \/ state.card_active = SevenSpade
    /\ \E n \in HarnessSteps : n # steps_remaining /\ steps_remaining' = n
    /\ UNCHANGED <<state, calls>>
    /\ last' = Setup("set_steps")

\* the record of a call of get_list_action: the list it returned, the game
\* before the call and, if the call before it was one too, the list of that call
Listing(result) ==
    [ op |-> "get_list_action", action |-> NoAction, generated |-> FALSE, error |-> "none",
      branch |-> "none", state_before |-> state, steps_before |-> steps_remaining,
      acted |-> ActedSoFar, result |-> result, repeated |-> last.op = "get_list_action",
      previous |-> IF last.op = "get_list_action" THEN last.result ELSE <<>> ]

\* game.get_list_action(): the list is built from the GameState, which is
\* only read, and steps_remaining is not touched
GetListAction ==
    /\ UNCHANGED <<state, steps_remaining, calls>>
    /\ last' = Listing(get_list_action(state))

\* the outcomes of random.shuffle that a call of apply_action on s can meet:
\* the deck is renewed only if the draw pile is short of the largest deal
ShuffleOutcomes(s) == IF Len(s.list_card_draw) < 6 * cnt_player THEN 1..NumShuffles ELSE {1}

\* the game object after a call of apply_action with outcome o
Returned(o, action, generated) ==
    /\ state' = o.state
    /\ steps_remaining' = o.steps_remaining
    /\ last' = Call("apply", action, generated, o.error, o.branch)
    /\ calls' = calls + 1

\* game.apply_action(action)
Apply(action, generated) ==
    \E k \in ShuffleOutcomes(state) :
        Returned(apply_action(state, steps_remaining, action, k), action, generated)

\* the caller applies one of the actions of get_list_action
ApplyGenerated ==
    /\ calls < MaxCalls
    /\ \E action \in Range(get_list_action(state)) : Apply(action, TRUE)

\* the caller passes: apply_action(None)
ApplyPass ==
    /\ calls < MaxCalls
    /\ Apply(NoAction, FALSE)

\* the caller applies an action of its own making
ApplyProbe ==
    /\ calls < MaxCalls
    /\ \E action \in ProbeActions(state) : Apply(action, FALSE)

Next == Reset \/ SetState \/ SetStepsRemaining \/ ApplyGenerated \/ ApplyPass \/ ApplyProbe

Spec == Init /\ [][Next]_vars

\* a game played from reset() with the actions of get_list_action and passes
GenApply ==
    /\ calls < MaxGenCalls
    /\ \E action \in Range(get_list_action(state)) : Apply(action, TRUE)

GenPass ==
    /\ calls < MaxGenCalls
    /\ Apply(NoAction, FALSE)

NextGen == Reset \/ GetListAction \/ GenApply \/ GenPass

SpecGen == Init /\ [][NextGen]_vars

\* game.set_state(st) with a state of the tests of the turn order
SetTurnState ==
    /\ \E st \in TurnStates : state' = st
    /\ UNCHANGED steps_remaining
    /\ last' = Setup("set_state")
    /\ calls' = 0

\* the caller applies one of the actions of get_list_action
TurnApply ==
    /\ calls < MaxTurnCalls
    /\ \E action \in Range(get_list_action(state)) : Apply(action, TRUE)

\* the caller passes: apply_action(None)
TurnPass ==
    /\ calls < MaxTurnCalls
    /\ Apply(NoAction, FALSE)

\* the caller applies an action of its own making
TurnProbe ==
    /\ calls < MaxTurnCalls
    /\ \E action \in ProbeActions(state) : Apply(action, FALSE)

NextTurn == Reset \/ SetTurnState \/ TurnApply \/ TurnPass \/ TurnProbe

\* a game set up as the tests of the turn order set it up
SpecTurn == Init /\ [][NextTurn]_vars

\* test_is_path_blocked_with_block: a safe marble of the first player on cell 6
BlockState == [ResetState(1) EXCEPT !.list_player[0].list_marble[1] = Marble(6, TRUE)]

\* the states of the tests of is_path_blocked, and ForwardState with its safe
\* marble on cell 12 and marbles that are not safe on cells 10 and 60
PathStates == { BlockState, ForwardState }

\* game.set_state(st) with a state of the tests of is_path_blocked
SetPathState ==
    /\ \E st \in PathStates : state' = st
    /\ UNCHANGED steps_remaining
    /\ last' = Setup("set_state")
    /\ calls' = 0

\* the record of a call of is_path_blocked: its arguments and what it returned
PathCall(start, end) ==
    [ op |-> "is_path_blocked", action |-> NoAction, generated |-> FALSE, error |-> "none",
      branch |-> "none", state_before |-> state, steps_before |-> steps_remaining,
      acted |-> ActedSoFar, start |-> start, end |-> end,
      result |-> is_path_blocked(state, start, end) ]

\* game.is_path_blocked(start, end)
IsPathBlocked ==
    /\ \E start, end \in 0..MaxPathCell : last' = PathCall(start, end)
    /\ UNCHANGED <<state, steps_remaining, calls>>

NextPath == SetPathState \/ IsPathBlocked

\* is_path_blocked called on a fresh game and on the games of its tests
SpecPath == Init /\ [][NextPath]_vars

\* ------------------------------------------------------------------------
\* Properties
\* ------------------------------------------------------------------------

\* sum(len(hand)) + len(draw pile) + len(discard pile)
CardTotal(s) ==
    Len(s.list_player[0].list_card) + Len(s.list_player[1].list_card)
    + Len(s.list_player[2].list_card) + Len(s.list_player[3].list_card)
    + Len(s.list_card_draw) + Len(s.list_card_discard)

\* the marbles of GameState s, as (player, marble) pairs
MarbleIds(s) == { <<i, j>> \in (0..3) \X (1..4) : j <= Len(s.list_player[i].list_marble) }

\* the last call was apply_action and the active player of the state before
\* it had a marble on the pos_from of the action
LastMovedFrom ==
    /\ last.op = "apply"
    /\ last.action # NoAction
    /\ last.action.pos_from # None
    /\ HasMarbleAt(last.state_before, last.state_before.idx_player_active, last.action.pos_from)

\* C1: in every state reachable from a fresh game by apply_action calls, the
\* four hands, the draw pile and the discard pile hold 110 cards together.
C1_CardsConserved == CardTotal(state) = Len(LIST_CARD)

\* C2: in every state reachable from a fresh game by applying actions of
\* get_list_action, or passing, every marble stands on a cell of 0..95.
C2_PositionsInRange ==
    \A id \in MarbleIds(state) :
        state.list_player[id[1]].list_marble[id[2]].pos \in 0..95

\* a generated action has moved a marble of the game onto the track
C2_Witness ==
    /\ last.op = "apply"
    /\ last.generated
    /\ \E id \in MarbleIds(state) :
          /\ state.list_player[id[1]].list_marble[id[2]].pos < 64
          /\ last.state_before.list_player[id[1]].list_marble[id[2]].pos >= 64

\* C3: immediately after reset there are 4 players with 6 cards and 4 marbles
\* each, 86 cards in the draw pile, no discarded card, every marble of player
\* i in the kennel cells 64+8i..67+8i and not safe, round 1, active and
\* starting player 0, no active card, and the phase is running.
C3_ResetPostcondition ==
    last.op = "reset" =>
        /\ DOMAIN state.list_player = 0..3
        /\ \A i \in 0..3 :
              /\ Len(state.list_player[i].list_card) = 6
              /\ Len(state.list_player[i].list_marble) = 4
              /\ \A j \in 1..4 :
                    /\ state.list_player[i].list_marble[j].pos \in (64 + 8 * i)..(67 + 8 * i)
                    /\ ~state.list_player[i].list_marble[j].is_save
        /\ Len(state.list_card_draw) = 86
        /\ state.list_card_discard = <<>>
        /\ state.cnt_round = 1
        /\ state.idx_player_active = 0
        /\ state.idx_player_started = 0
        /\ state.card_active = NoCard
        /\ state.phase = "running"

\* reset() was called on a game in which a SEVEN had been played
C3_Witness == last.op = "reset" /\ steps_remaining # None

\* the distance of a sub-move from pos_from to pos_to: 5 from the cell before
\* the finish into the first finish cell, 2 from the first finish cell to the
\* next one of the sequence, the difference of the cells otherwise
Distance(action) ==
    IF action.pos_from \in {12, 13} /\ action.pos_to = 76 THEN 5
    ELSE IF action.pos_from = 76 /\ action.pos_to = 78 THEN 2
    ELSE IF action.pos_to >= action.pos_from
    THEN action.pos_to - action.pos_from
    ELSE action.pos_from - action.pos_to

\* the steps a SEVEN had left before the last call (7 for its first sub-move)
RemainingBefore == IF last.steps_before = None THEN 7 ELSE last.steps_before

\* C4: a sub-move of a SEVEN whose distance from pos_from to pos_to is greater
\* than the remaining steps raises the exceeded-steps error, also inside or
\* into the finish cells (76 to 80 with 2 steps remaining).
C4_ExceededRaised ==
    (/\ last.op = "apply"
     /\ last.branch = "seven"
     /\ last.action.card.rank = "7"
     /\ Distance(last.action) > RemainingBefore)
        => last.error = "exceeded"

\* C5: when apply_action raises the exceeded-steps error, the GameState and
\* steps_remaining are those of before the call, also for the first sub-move
\* of a SEVEN (steps_remaining None before the call).
C5_ExceededLeavesGame ==
    (last.op = "apply" /\ last.error = "exceeded")
        => state = last.state_before /\ steps_remaining = last.steps_before

\* C6: the sub-move of a SEVEN that uses up the remaining steps sets
\* steps_remaining to None, clears card_active, removes the SEVEN from the
\* hand of the player who moved and makes the next player the active one.
C6_SevenCompleted ==
    (LastMovedFrom /\ last.branch = "seven" /\ StepsUsed(last.action) = RemainingBefore)
        => LET p == last.state_before.idx_player_active IN
           /\ steps_remaining = None
           /\ state.card_active = NoCard
           /\ ~In(SevenSpade, state.list_player[p].list_card)
           /\ state.idx_player_active = (p + 1) % cnt_player

\* C7: with a SEVEN active, get_list_action returns exactly the continuation
\* moves: one action 12 -> 76 with 7 steps remaining and the marble on 12, one
\* action 76 -> 78 with 2 steps remaining and the marble on 76.
C7_SevenContinuations ==
    /\ (state = SevenState(12, SevenSpade) /\ steps_remaining = 7)
          => get_list_action(state) = <<Action(SevenSpade, 12, 76, NoCard)>>
    /\ (state = SevenState(76, SevenSpade) /\ steps_remaining = 2)
          => get_list_action(state) = <<Action(SevenSpade, 76, 78, NoCard)>>

\* all marbles of player i stand in the finish cells of player i
InOwnFinish(s, i) ==
    \A j \in 1..Len(s.list_player[i].list_marble) :
        s.list_player[i].list_marble[j].pos \in (68 + 8 * i)..(71 + 8 * i)

\* C8: after a generic move by active player p the phase is finished if and
\* only if p and the partner of p have all their marbles in their own finish
\* cells, for players 0/2 and for players 1/3.
C8_FinishedIffTeamComplete ==
    (LastMovedFrom /\ last.branch = "generic" /\ last.state_before.phase = "running")
        => LET p == last.state_before.idx_player_active IN
           (state.phase = "finished")
               <=> (InOwnFinish(state, p) /\ InOwnFinish(state, (p + 2) % cnt_player))

\* C9: in every state whose phase is finished, get_list_action returns the
\* empty list, whoever is active and whatever the hand.
C9_NoActionsWhenFinished == state.phase = "finished" => get_list_action(state) = <<>>

\* C10: once the phase is finished, apply_action with an action or a pass
\* leaves the whole GameState as it was.
C10_FinishedReadOnly ==
    (last.op = "apply" /\ last.state_before.phase = "finished") => state = last.state_before

\* the list_marble of all players of GameState s
AllMarbles(s) == [i \in 0..3 |-> s.list_player[i].list_marble]

\* the last call applied a Joker activation and the active player held a Joker
LastJokerActivation ==
    /\ last.op = "apply"
    /\ last.action # NoAction
    /\ last.action.card = Joker
    /\ last.action.pos_from = None
    /\ last.action.pos_to = None
    /\ last.action.card_swap # NoCard
    /\ InHand(last.state_before, Joker)

\* C11: a Joker activation by a player who holds a Joker removes exactly one
\* Joker from that hand, makes card_swap the active card and leaves the active
\* player, the round count, steps_remaining and every marble as they were.
C11_JokerActivation ==
    LastJokerActivation =>
        LET p == last.state_before.idx_player_active IN
        /\ state.list_player[p].list_card = ListRemove(last.state_before.list_player[p].list_card, Joker)
        /\ state.card_active = last.action.card_swap
        /\ state.idx_player_active = p
        /\ state.cnt_round = last.state_before.cnt_round
        /\ steps_remaining = last.steps_before
        /\ AllMarbles(state) = AllMarbles(last.state_before)

\* a player holding two Jokers has activated one of them
C11_Witness ==
    /\ LastJokerActivation
    /\ state.list_player[last.state_before.idx_player_active].list_card = <<Joker>>

\* C12: whenever card_active is set, every action of get_list_action has the
\* active card as its card, also in team-support mode and while an exchange is
\* pending.
C12_ActiveCardOnly ==
    state.card_active # NoCard =>
        \A a \in Range(get_list_action(state)) : a.card = state.card_active

\* the last call applied an action that names both cells
LastMoveAction ==
    /\ last.op = "apply"
    /\ last.action # NoAction
    /\ last.action.pos_from # None
    /\ last.action.pos_to # None

\* C13: apply_action with a move action whose card is not in the hand of the
\* active player, no active card pending, changes nothing and raises nothing
\* (stated for the moves from a cell with a marble of the active player).
C13_ForeignCardNoOp ==
    (/\ LastMoveAction
     /\ LastMovedFrom
     /\ last.state_before.card_active = NoCard
     /\ ~InHand(last.state_before, last.action.card))
        => /\ last.error = "none"
           /\ state = last.state_before
           /\ steps_remaining = last.steps_before

\* some player has a marble on cell pos
AnyMarbleAt(s, pos) == \E i \in 0..3 : HasMarbleAt(s, i, pos)

\* the card the last call used: the active card if one was set, else its own
LastCardToUse ==
    IF last.state_before.card_active # NoCard
    THEN last.state_before.card_active
    ELSE last.action.card

\* C14: apply_action with an action whose pos_from holds no marble of the
\* active player, or with a Jake whose pos_to holds no marble, changes no
\* marble and no hand, does not advance the turn and raises nothing.
C14_MissingMarbleNoOp ==
    (/\ LastMoveAction
     /\ \/ ~HasMarbleAt(last.state_before, last.state_before.idx_player_active, last.action.pos_from)
        \/ LastCardToUse.rank = "J" /\ ~AnyMarbleAt(last.state_before, last.action.pos_to))
        => /\ last.error = "none"
           /\ AllMarbles(state) = AllMarbles(last.state_before)
           /\ \A i \in 0..3 :
                 state.list_player[i].list_card = last.state_before.list_player[i].list_card
           /\ state.idx_player_active = last.state_before.idx_player_active

\* C15: apply_action raises no error other than the exceeded-steps error:
\* every action and every pass returns normally, also a pass or the final
\* sub-move while the active SEVEN was declared through a Joker and is not in
\* the hand, and a team-support move.
C15_OnlyExceededRaised == last.op = "apply" => last.error \in {"none", "exceeded"}

\* the cards of the active player's hand that let a marble leave the kennel
StartCardsInHand(s) ==
    { c \in Range(s.list_player[s.idx_player_active].list_card) : c.rank \in {"A", "K", "JKR"} }

\* the kennel cells of player i
KennelCells(i) == (64 + 8 * i)..(67 + 8 * i)

\* C17: for an active player i who has not finished, with no SEVEN in progress
\* and no exchange pending, every A, K or Joker of the hand and every own
\* marble in a kennel cell of player i yield a generated action from that cell
\* to the start cell 16*i.
C17_KennelExitsOffered ==
    LET i == state.idx_player_active IN
    (/\ ~player_finished(state)
     /\ steps_remaining = None
     /\ state.card_active = NoCard
     /\ ~(state.cnt_round = 0 /\ ~state.bool_card_exchanged))
        => \A c \in StartCardsInHand(state) :
              \A j \in 1..Len(state.list_player[i].list_marble) :
                 state.list_player[i].list_marble[j].pos \in KennelCells(i)
                     => In(Action(c, state.list_player[i].list_marble[j].pos, 16 * i, NoCard),
                           get_list_action(state))

\* a marble with is_save = True stands on one of the cells lo..hi
SafeMarbleOn(s, lo, hi) ==
    \E id \in MarbleIds(s) :
        /\ s.list_player[id[1]].list_marble[id[2]].is_save
        /\ s.list_player[id[1]].list_marble[id[2]].pos \in lo..hi

\* the number of steps of a forward-move rank
StepsOfRank(rank) ==
    CASE rank = "2" -> 2 [] rank = "3" -> 3 [] rank = "5" -> 5 [] rank = "6" -> 6
      [] rank = "8" -> 8 [] rank = "9" -> 9 [] rank = "10" -> 10

\* C18: for an active player who has not finished, with no active card and no
\* exchange pending, each hand card of a rank n of 2, 3, 5, 6, 8, 9, 10 and
\* each own marble on a track cell p: the action (card, p, p+n) is returned
\* if and only if p+n <= 63 and no safe marble stands on a cell of p+1..p+n.
C18_ForwardMovesIff ==
    LET i == state.idx_player_active IN
    (/\ ~player_finished(state)
     /\ state.card_active = NoCard
     /\ ~(state.cnt_round = 0 /\ ~state.bool_card_exchanged))
        => \A c \in Range(state.list_player[i].list_card) :
              \A j \in 1..Len(state.list_player[i].list_marble) :
                 LET p == state.list_player[i].list_marble[j].pos IN
                 (c.rank \in {"2", "3", "5", "6", "8", "9", "10"} /\ p \in 0..63)
                     => (In(Action(c, p, p + StepsOfRank(c.rank), NoCard), get_list_action(state))
                            <=> (/\ p + StepsOfRank(c.rank) <= 63
                                 /\ ~SafeMarbleOn(state, p + 1, p + StepsOfRank(c.rank))))

\* the active player holds a 2 and a 5: the 2 is offered from cell 60, it is
\* not offered from cell 10 because of the safe marble on 12, and the 5 is
\* not offered from 60 because 65 is off the track
C18_Witness ==
    /\ state.card_active = NoCard
    /\ HasMarbleAt(state, state.idx_player_active, 10)
    /\ HasMarbleAt(state, state.idx_player_active, 60)
    /\ InHand(state, Card("S", "2"))
    /\ InHand(state, Card("S", "5"))
    /\ SafeMarbleOn(state, 12, 12)
    /\ In(Action(Card("S", "2"), 60, 62, NoCard), get_list_action(state))
    /\ ~In(Action(Card("S", "2"), 10, 12, NoCard), get_list_action(state))
    /\ ~In(Action(Card("S", "5"), 60, 65, NoCard), get_list_action(state))

\* C19: get_player_view(i) conceals the hands of the players other than i:
\* for two game states that differ only in the hand of a player other than i
\* (here: the state and the state with that hand emptied) the views are equal.
C19_ViewConcealsHands ==
    \A i \in 0..3 :
        \A j \in (0..3) \ {i} :
            get_player_view(state, i) = get_player_view(WithHand(state, j, <<>>), i)

\* an exchange declaration: a card and nothing else
IsExchangeAction(a) == a.pos_from = None /\ a.pos_to = None /\ a.card_swap = NoCard

\* C20: in a round with the exchange pending (cnt_round = 0, no card
\* exchanged) each of the four players in turn is offered exchange actions
\* and gives one card to the partner before any move is offered: after the
\* exchange of the player who started the round, the next player, holding
\* cards, is offered exchange actions and nothing else.
C20_ExchangeBeforeMoves ==
    (/\ last.op = "apply"
     /\ last.branch = "exchange"
     /\ last.generated
     /\ last.state_before.cnt_round = 0
     /\ ~last.state_before.bool_card_exchanged
     /\ last.state_before.idx_player_active = last.state_before.idx_player_started
     /\ state.list_player[state.idx_player_active].list_card # <<>>)
        => /\ get_list_action(state) # <<>>
           /\ \A a \in Range(get_list_action(state)) : IsExchangeAction(a)

\* the number of copies of card x in the list lst
Count(lst, x) == Cardinality({ i \in 1..Len(lst) : lst[i] = x })

\* the number of cards in the four hands
HandTotal(s) ==
    Len(s.list_player[0].list_card) + Len(s.list_player[1].list_card)
    + Len(s.list_player[2].list_card) + Len(s.list_player[3].list_card)

\* the last call applied an exchange declaration for a card of the hand
LastExchangeFromHand ==
    /\ last.op = "apply"
    /\ last.action # NoAction
    /\ IsExchangeAction(last.action)
    /\ InHand(last.state_before, last.action.card)

\* how many more copies of card player i holds in s than in before
HandDelta(s, before, i, card) ==
    Count(s.list_player[i].list_card, card) - Count(before.list_player[i].list_card, card)

\* C21: applying an exchange declaration for a card of the active player's
\* hand moves exactly one copy of the card to the hand of player
\* (active + 2) mod 4, sets bool_card_exchanged, advances idx_player_active by
\* one modulo 4 and leaves the number of cards in hands and every marble as
\* they were.
C21_ExchangeTransfers ==
    LastExchangeFromHand =>
        /\ \A i \in 0..3 : \A c \in Range(LIST_CARD) :
              HandDelta(state, last.state_before, i, c) =
                  IF c # last.action.card THEN 0
                  ELSE IF i = last.state_before.idx_player_active THEN -1
                  ELSE IF i = (last.state_before.idx_player_active + 2) % cnt_player THEN 1
                  ELSE 0
        /\ state.bool_card_exchanged
        /\ state.idx_player_active = (last.state_before.idx_player_active + 1) % cnt_player
        /\ HandTotal(state) = HandTotal(last.state_before)
        /\ \A i \in 0..3 : state.list_player[i].list_marble = last.state_before.list_player[i].list_marble

\* an exchange declaration offered by get_list_action was applied in round 0
\* by a player holding six cards
C21_Witness ==
    /\ LastExchangeFromHand
    /\ last.generated
    /\ last.state_before.cnt_round = 0
    /\ Len(last.state_before.list_player[last.state_before.idx_player_active].list_card) = 6

\* the last call of apply_action rolled the round over
LastRolledOver ==
    /\ last.op = "apply"
    /\ last.error = "none"
    /\ state.cnt_round = last.state_before.cnt_round + 1

\* the hands and the draw pile of s are a deal of n cards each from the front
\* of pile, in player order
DealtFrom(s, pile, n) ==
    /\ \A i \in 0..3 : s.list_player[i].list_card = SubSeq(pile, n * i + 1, n * i + n)
    /\ s.list_card_draw = SubSeq(pile, 4 * n + 1, Len(pile))

\* the piles a deal of n cards each is taken from: the draw pile of s if it
\* holds enough cards, a renewed deck otherwise
DealPiles(s, n) ==
    IF Len(s.list_card_draw) >= 4 * n THEN {s.list_card_draw}
    ELSE { Shuffled(LIST_CARD, k) : k \in 1..NumShuffles }

\* C22: whenever apply_action rolls the round over to round r, every player
\* holds exactly 6 - ((r - 1) mod 5) cards afterwards (6, 5, 4, 3, 2
\* repeating), all taken from the front of the draw pile in player order.
C22_RolloverDeal ==
    LastRolledOver =>
        /\ \A i \in 0..3 :
              Len(state.list_player[i].list_card) = 6 - ((state.cnt_round - 1) % 5)
        /\ \E pile \in DealPiles(last.state_before, 6 - ((state.cnt_round - 1) % 5)) :
              DealtFrom(state, pile, 6 - ((state.cnt_round - 1) % 5))

\* the round was rolled over to a round after the fifth, with a renewed deck
C22_Witness ==
    /\ LastRolledOver
    /\ state.cnt_round = 7
    /\ Len(state.list_card_draw) = 90

\* marble id was captured by the last call: a move of the generic or the
\* SEVEN branch took it from its cell of the track, and it is not the marble
\* the action named
Captured(id) ==
    /\ last.op = "apply"
    /\ last.error = "none"
    /\ last.branch \in {"generic", "seven"}
    /\ last.state_before.list_player[id[1]].list_marble[id[2]].pos < 64
    /\ state.list_player[id[1]].list_marble[id[2]].pos #
          last.state_before.list_player[id[1]].list_marble[id[2]].pos
    /\ \/ id[1] # last.state_before.idx_player_active
       \/ last.state_before.list_player[id[1]].list_marble[id[2]].pos # last.action.pos_from

\* C23: a marble captured by a move is returned to a kennel cell of its
\* owner (64+8j..67+8j for owner j) and marked not safe, for every owner j
\* in 0..3.
C23_CapturedToOwnKennel ==
    \A id \in MarbleIds(state) :
        Captured(id) =>
            /\ state.list_player[id[1]].list_marble[id[2]].pos \in KennelCells(id[1])
            /\ ~state.list_player[id[1]].list_marble[id[2]].is_save

\* C24: get_list_action switches to the team-support actions exactly when all
\* four marbles of the active player stand in that player's own finish cells;
\* a player whose marbles are all in their own kennel (as players 1, 2 and 3
\* in a fresh game) is not treated as finished.
C24_FinishedIffInOwnFinish ==
    state.phase = "running" =>
        (player_finished(state) <=> InOwnFinish(state, state.idx_player_active))

\* the last call applied a generated team-support move of a player whose
\* marbles all stood in their own finish cells
LastSupportMove ==
    /\ last.op = "apply"
    /\ last.generated
    /\ last.branch = "support"
    /\ InOwnFinish(last.state_before, last.state_before.idx_player_active)
    /\ InHand(last.state_before, last.action.card)

\* C25: a team-support move applied by a finished active player relocates
\* the partner's marble from pos_from to pos_to, marks it not safe, removes
\* the used card from the active player's hand and advances idx_player_active
\* by one modulo 4.
C25_SupportMove ==
    LastSupportMove =>
        LET ap == last.state_before.idx_player_active
            partner == (ap + 2) % cnt_player
            j == MarbleAt(last.state_before.list_player[partner].list_marble, last.action.pos_from)
        IN /\ j # 0
           /\ state.list_player[partner].list_marble[j] = Marble(last.action.pos_to, FALSE)
           /\ state.list_player[ap].list_card =
                  ListRemove(last.state_before.list_player[ap].list_card, last.action.card)
           /\ state.idx_player_active = (ap + 1) % cnt_player

\* C26: a pass while the active card is a SEVEN changes only the active
\* player's hand (the SEVEN is removed), card_active, steps_remaining and
\* idx_player_active; every marble's position and is_save are the same after
\* the call as before it.
C26_PassSevenFrame ==
    (/\ last.op = "apply"
     /\ last.action = NoAction
     /\ last.state_before.card_active.rank = "7"
     /\ last.error = "none")
        => /\ AllMarbles(state) = AllMarbles(last.state_before)
           /\ \A i \in 0..3 :
                 i # last.state_before.idx_player_active =>
                    state.list_player[i].list_card = last.state_before.list_player[i].list_card
           /\ state.list_card_draw = last.state_before.list_card_draw
           /\ state.list_card_discard = last.state_before.list_card_discard
           /\ state.cnt_round = last.state_before.cnt_round
           /\ state.idx_player_started = last.state_before.idx_player_started
           /\ state.bool_card_exchanged = last.state_before.bool_card_exchanged
           /\ state.phase = last.state_before.phase

\* the last call, a pass or an action of get_list_action, advanced the turn
\* to the player who started the round
LastWrappedToStart ==
    /\ last.op = "apply"
    /\ last.error = "none"
    /\ last.generated \/ last.action = NoAction
    /\ state.idx_player_active # last.state_before.idx_player_active
    /\ state.idx_player_active = last.state_before.idx_player_started

\* C27: whenever a call of apply_action advances the turn so that
\* idx_player_active becomes equal to idx_player_started, that call increments
\* cnt_round by one, resets bool_card_exchanged, advances idx_player_started
\* by one and deals new hands, whichever branch advanced the turn (generic
\* move, fold, exchange, completed SEVEN, pass during a SEVEN).
C27_WrapRollsOver ==
    LastWrappedToStart =>
        /\ state.cnt_round = last.state_before.cnt_round + 1
        /\ ~state.bool_card_exchanged
        /\ state.idx_player_started = (last.state_before.idx_player_started + 1) % cnt_player
        /\ \A i \in 0..3 :
              Len(state.list_player[i].list_card) = cards_per_player(last.state_before.cnt_round + 1)

\* C28: between two consecutive increments of cnt_round each of the four
\* players has been the active player of at least one apply_action call: a
\* round is one full circuit of the table, also after the first round, when
\* idx_player_started has moved on.
C28_RoundIsFullCircuit ==
    (LastRolledOver /\ state.cnt_round >= 3) => last.acted = 0..3

\* C29: whenever idx_player_active changes to the next player, card_active is
\* None: a card declared through a Joker never stays active into another
\* player's turn, for example after the declaring player passes because the
\* declared card yields no action.
C29_NoActiveCardAcrossTurns ==
    (/\ last.op = "apply"
     /\ last.error = "none"
     /\ last.generated \/ last.action = NoAction
     /\ state.idx_player_active # last.state_before.idx_player_active)
        => state.card_active = NoCard

\* steps is None, or a number of 1..7 while the active card of s is a SEVEN
StepsConsistent(s, steps) ==
    \/ steps = None
    \/ steps \in 1..7 /\ s.card_active.rank = "7"

\* C30: steps_remaining is None or an integer of 1..7, and it is not None only
\* while card_active is a SEVEN: no call of apply_action (Joker activation,
\* exchange declaration, generic move) on a game where this holds replaces or
\* clears the active SEVEN while steps_remaining stays set.
C30_StepsOnlyDuringSeven ==
    (last.op = "apply" /\ StepsConsistent(last.state_before, last.steps_before))
        => StepsConsistent(state, steps_remaining)

\* the last call applied a sub-move of a SEVEN of the hand to a marble of the
\* active player, on a game whose steps_remaining agreed with card_active,
\* and the sub-move is shorter than the steps the SEVEN had left
LastPartialSeven ==
    /\ LastMovedFrom
    /\ last.branch = "seven"
    /\ last.error = "none"
    /\ last.action.card.rank = "7"
    /\ InHand(last.state_before, last.action.card)
    /\ last.state_before.card_active \in {NoCard, last.action.card}
    /\ StepsConsistent(last.state_before, last.steps_before)
    /\ Distance(last.action) < RemainingBefore

\* C31: a sub-move of a SEVEN that leaves steps_remaining greater than 0
\* keeps the SEVEN in the active player's hand and as card_active, decreases
\* steps_remaining by exactly the steps used, and leaves idx_player_active
\* and cnt_round unchanged.
C31_PartialSeven ==
    LastPartialSeven =>
        /\ state.list_player[state.idx_player_active].list_card =
              last.state_before.list_player[state.idx_player_active].list_card
        /\ state.card_active = last.action.card
        /\ steps_remaining = RemainingBefore - Distance(last.action)
        /\ state.idx_player_active = last.state_before.idx_player_active
        /\ state.cnt_round = last.state_before.cnt_round

\* the position of marble id in GameState s
PosOf(s, id) == s.list_player[id[1]].list_marble[id[2]].pos

\* C32: applying a Jake action of get_list_action exchanges the positions of
\* the two marbles standing on pos_from and pos_to and changes no other
\* marble; this holds for both listed directions of a pair and for swaps
\* between two marbles of the active player.
C32_JakeSwaps ==
    (/\ last.op = "apply"
     /\ last.generated
     /\ last.branch = "jake"
     /\ last.error = "none")
        => \E a, b \in MarbleIds(state) :
              /\ a # b
              /\ PosOf(last.state_before, a) = last.action.pos_from
              /\ PosOf(last.state_before, b) = last.action.pos_to
              /\ PosOf(state, a) = last.action.pos_to
              /\ PosOf(state, b) = last.action.pos_from
              /\ \A id \in MarbleIds(state) \ {a, b} :
                    state.list_player[id[1]].list_marble[id[2]] =
                        last.state_before.list_player[id[1]].list_marble[id[2]]

\* the marbles of GameState s that stand on cell pos
MarblesOn(s, pos) == { id \in MarbleIds(s) : PosOf(s, id) = pos }

\* C33: after a generic move to a track cell t the moved marble is the only
\* marble on t: every other marble that stood on t, of another player or of
\* the active player, has been sent to a kennel and marked not safe.
C33_AloneOnTarget ==
    (/\ LastMovedFrom
     /\ last.generated
     /\ last.branch = "generic"
     /\ last.error = "none"
     /\ last.action.pos_to \in 0..63
     /\ last.action.pos_to # last.action.pos_from)
        => /\ Cardinality(MarblesOn(state, last.action.pos_to)) = 1
           /\ \A id \in MarblesOn(last.state_before, last.action.pos_to) :
                 /\ \E i \in 0..3 : PosOf(state, id) \in KennelCells(i)
                 /\ ~state.list_player[id[1]].list_marble[id[2]].is_save

\* the last call applied a generic move as C34 describes it: the card is
\* neither a SEVEN, a Jake nor a Joker, the active player has not finished,
\* holds the card, has no active card and has a marble on pos_from
LastGenericMove ==
    /\ LastMovedFrom
    /\ last.error = "none"
    /\ last.action.card.rank \notin {"7", "J", "JKR"}
    /\ last.action.card_swap = NoCard
    /\ last.action.pos_to # None
    /\ ~player_finished(last.state_before)
    /\ InHand(last.state_before, last.action.card)
    /\ last.state_before.card_active = NoCard

\* C34: a generic move by a player who has not finished, holds the card, has
\* no active card and has a marble on pos_from puts that marble on pos_to
\* marked safe, removes exactly one copy of the card from that hand, changes
\* no other hand when no round rollover occurs, and advances
\* idx_player_active by one modulo 4.
C34_GenericMove ==
    LastGenericMove =>
        LET ap == last.state_before.idx_player_active
            j == MarbleAt(last.state_before.list_player[ap].list_marble, last.action.pos_from)
        IN /\ state.list_player[ap].list_marble[j] = Marble(last.action.pos_to, TRUE)
           /\ state.idx_player_active = (ap + 1) % cnt_player
           /\ state.cnt_round = last.state_before.cnt_round =>
                 /\ state.list_player[ap].list_card =
                        ListRemove(last.state_before.list_player[ap].list_card, last.action.card)
                 /\ \A i \in 0..3 \ {ap} :
                       state.list_player[i].list_card = last.state_before.list_player[i].list_card

\* C35: the list returned by get_list_action contains no two actions with
\* equal (card, pos_from, pos_to, card_swap), also in team-support mode and
\* during a pending exchange when the hand holds two equal cards.
C35_NoDuplicateActions ==
    Cardinality(Range(get_list_action(state))) = Len(get_list_action(state))

\* C36: is_path_blocked(start, end) returns true if and only if some marble
\* of any player with is_save = True stands on a cell of (start, end] when
\* end > start, or on a cell of [end, start) when end < start; it returns
\* false when start = end.
C36_PathBlockedIff ==
    last.op = "is_path_blocked" =>
        (last.result <=>
            IF last.end > last.start THEN SafeMarbleOn(state, last.start + 1, last.end)
            ELSE IF last.end < last.start THEN SafeMarbleOn(state, last.end, last.start - 1)
            ELSE FALSE)

\* is_path_blocked has returned true for a backward path that ends on the
\* cell of a safe marble
C36_Witness ==
    /\ last.op = "is_path_blocked"
    /\ last.result
    /\ last.end < last.start
    /\ SafeMarbleOn(state, last.end, last.end)

\* C37: get_list_action never returns a move action (pos_from and pos_to both
\* set) whose card has rank 4 or Q, neither in normal mode nor in
\* team-support mode.
C37_NoFourOrQueenMoves ==
    \A a \in Range(get_list_action(state)) :
        (a.pos_from # None /\ a.pos_to # None) => a.card.rank \notin {"4", "Q"}

\* ------------------------------------------------------------------------
\* The driver: a loop that asks the game for its actions and applies one of
\* them, or None when the list is empty (RandomPlayer.select_action)
\* ------------------------------------------------------------------------

\* the number of apply_action calls the driver makes on one game
MaxDriveCalls == 12

\* the loop runs on while no call has raised: an error of apply_action is
\* not caught and ends the driver
DriverRuns == last.error = "none" /\ calls < MaxDriveCalls

\* select_action returns one of the listed actions when there is any
DriveApply ==
    /\ DriverRuns
    /\ get_list_action(state) # <<>>
    /\ \E action \in Range(get_list_action(state)) : Apply(action, TRUE)

\* select_action returns None when the list is empty
DrivePass ==
    /\ DriverRuns
    /\ get_list_action(state) = <<>>
    /\ Apply(NoAction, FALSE)

NextDrive == DriveApply \/ DrivePass

\* one more call of apply_action by the running driver: every step of
\* NextDrive is such a step, and one is possible exactly when DriverRuns
DriveCall == DriverRuns /\ calls' = calls + 1

\* the loop never pauses: while the driver runs, it makes its next call
SpecDrive == Init /\ [][NextDrive]_vars /\ WF_calls(DriveCall)

\* C38: under the driver every turn ends: whenever a player is the active
\* player while the driver still has calls to make, later another player is
\* the active player, or the driver has made all its calls.
C38_TurnEnds ==
    \A p \in 0..(cnt_player - 1) :
        (state.idx_player_active = p /\ calls < MaxDriveCalls)
            ~> (state.idx_player_active # p \/ calls = MaxDriveCalls)

\* the game objects (state and steps_remaining) one call of the driver can
\* turn the game object g into: the driver applies a listed action, or None
\* when the list is empty, and a call that raises ends the driver
DriverSuccessors(g) ==
    LET listed == get_list_action(g.state)
        choice == IF listed = <<>> THEN {NoAction} ELSE Range(listed)
        outcomes == { apply_action(g.state, g.steps_remaining, a, k) :
                        a \in choice, k \in ShuffleOutcomes(g.state) }
    IN  { [ state |-> o.state, steps_remaining |-> o.steps_remaining ] :
            o \in { x \in outcomes : x.error = "none" } }

\* the game objects the driver reaches from those of frontier in at most n
\* calls, seen being those found before
RECURSIVE DriverReach(_, _, _)
DriverReach(seen, frontier, n) ==
    IF n = 0 \/ frontier = {} THEN seen \cup frontier
    ELSE DriverReach(seen \cup frontier,
                     UNION { DriverSuccessors(g) : g \in frontier } \ (seen \cup frontier),
                     n - 1)

\* a marble that no call of the driver has brought to a finish cell: it is
\* on the track, in the kennel cell where reset() put it, or on cell 72
OffFinish(s, i, j) ==
    LET pos == s.list_player[i].list_marble[j].pos
    IN  pos < 64 \/ pos = 64 + 8 * i + (j - 1) \/ pos = 72

\* C39: from a fresh game the driver can reach phase = finished: among the
\* game objects it reaches from the fresh game within MaxDriveCalls calls,
\* one has phase = finished.
C39_FinishedReachable ==
    (last.op = "reset" /\ calls = 0) =>
        \E g \in DriverReach({}, {[ state |-> state, steps_remaining |-> steps_remaining ]},
                             MaxDriveCalls) :
            g.state.phase = "finished"

\* why no longer run of the driver finishes a game either: the actions of
\* get_list_action never target a finish cell, so no marble of player 0 ever
\* stands on 68..71, which phase = finished requires
C39_NoMarbleInFinish ==
    /\ state.phase = "running"
    /\ last.error = "none" => \A j \in 1..4 : OffFinish(state, 0, j)

\* C40: after reset() and after set_state(s) steps_remaining is None, so the
\* first apply_action on the new game state starts, as on a freshly
\* constructed game, with no SEVEN in progress.
C40_SetupClearsSteps ==
    /\ last.op \in {"reset", "set_state"} => steps_remaining = None
    /\ (last.op = "apply" /\ calls = 1) => last.steps_before = None

====
